---- MODULE Spec2Model ----
(***************************************************************************)
(* Model of graph.py (class Graph): construction of the adjacency          *)
(* dictionary from a labelled distance matrix, edge enumeration, the       *)
(* disjoint-set helpers, and the Kruskal and Prim minimum spanning tree    *)
(* methods.                                                                *)
(*                                                                         *)
(* Vertex labels are the integers 1..n; their numeric order stands for the *)
(* order Python gives the labels (string comparison of ticker symbols).    *)
(* An edge is the Python tuple (weight, origin, destination), written      *)
(* <<w, o, d>>.  A distance matrix M is read as M[row][column].            *)
(***************************************************************************)
EXTENDS Integers, Sequences, FiniteSets, TLC

\* Largest number of vertices of an input matrix.
MaxN == 3
\* Largest distance in an input matrix (0 means "no edge").
MaxW == 2
\* Number of vertices of the stand-alone disjoint-set specification.
MaxV == 4

VARIABLES
    names,       \* input: the matrix's labels, in matrix (column) order
    dist,        \* input: the distance matrix, dist[row][column]
    graph_dict,  \* Graph.graph_dict: [keys: key order, adj: key -> edge list]
    op,          \* the method called last ("new" right after construction)
    ret,         \* what that call returned or raised
    dirty,       \* TRUE once edges/weighted_edges/kruskal_mst/prim_mst ran
    parents,     \* SpecDS: parents dictionary
    ranks,       \* SpecDS: ranks dictionary
    comp,        \* SpecDS: history, the class of each vertex under the unions made
    last         \* SpecDS: history, the last union call and the state before it

vars == <<names, dist, graph_dict, op, ret, dirty, parents, ranks, comp, last>>
graphVars == <<names, dist, graph_dict, op, ret, dirty>>
dsVars == <<parents, ranks, comp, last>>

Range(s) == {s[k] : k \in 1..Len(s)}

(***************************************************************************)
(* Python tuple comparison and the priority queue                          *)
(***************************************************************************)

\* A comparison that looks at the destination before the origin.
EdgeLess_DestinationFirst(e, f) ==
    \/ e[1] < f[1]
    \/ e[1] = f[1] /\ e[3] < f[3]
    \/ e[1] = f[1] /\ e[3] = f[3] /\ e[2] < f[2]

\* (w1, o1, d1) < (w2, o2, d2) in Python: lexicographic.
EdgeLess(e, f) ==
    \/ e[1] < f[1]
    \/ e[1] = f[1] /\ e[2] < f[2]
    \/ e[1] = f[1] /\ e[2] = f[2] /\ e[3] < f[3]

RECURSIVE HeapInsert(_, _)
HeapInsert(e, s) ==
    IF s = <<>> THEN <<e>>
    ELSE IF EdgeLess(Head(s), e) THEN <<Head(s)>> \o HeapInsert(e, Tail(s))
    ELSE <<e>> \o s

\* heapq.heapify(edges): the queue is kept as the sequence of its items in
\* the order successive heappop calls deliver them (smallest tuple first).
RECURSIVE heapify(_)
heapify(edges) ==
    IF edges = <<>> THEN <<>>
    ELSE HeapInsert(Head(edges), heapify(Tail(edges)))

(***************************************************************************)
(* Construction: Graph.__init__                                            *)
(***************************************************************************)

RECURSIVE LabelInsert(_, _)
LabelInsert(x, s) ==
    IF s = <<>> THEN <<x>>
    ELSE IF Head(s) < x THEN <<Head(s)>> \o LabelInsert(x, Tail(s))
    ELSE <<x>> \o s

\* The keys of Series.groupby(level=0): the index labels, sorted (groupby
\* sorts the group keys by default).
RECURSIVE groupby_keys(_)
groupby_keys(index) ==
    IF index = <<>> THEN <<>>
    ELSE LabelInsert(Head(index), groupby_keys(Tail(index)))

\* The list comprehension building graph_dict[vertex]: one tuple
\* (vertices[vertex][dest], vertex, dest) per group key dest, zero
\* distances left out.  vertices[vertex] is the column named vertex.
AdjacencyList(M, index, vertex) ==
    LET order == groupby_keys(index)
        all == [k \in 1..Len(order) |-> <<M[order[k]][vertex], vertex, order[k]>>]
    IN  SelectSeq(all, LAMBDA e : e[1] # 0)

\* A construction that files the vertices under their sorted labels.
GraphInit_SortedKeys(nm, M) ==
    [keys |-> groupby_keys(nm),
     adj  |-> [v \in Range(nm) |-> AdjacencyList(M, nm, v)]]

\* Graph.__init__: the dictionary is filled in column order.
GraphInit(nm, M) ==
    [keys |-> nm,
     adj  |-> [v \in Range(nm) |-> AdjacencyList(M, nm, v)]]

(***************************************************************************)
(* Edge enumeration: Graph.__generate_edges, edges, weighted_edges         *)
(***************************************************************************)

DropWeight(s) == [x \in 1..Len(s) |-> <<s[x][2], s[x][3]>>]

RECURSIVE GenerateFrom(_, _, _, _, _)
GenerateFrom(g, k, i, directed, weights) ==
    IF k > Len(g.keys) THEN <<>>
    ELSE LET lst  == g.adj[g.keys[k]]
             part == IF i >= Len(lst) THEN <<>> ELSE SubSeq(lst, i + 1, Len(lst))
             out  == IF weights THEN part ELSE DropWeight(part)
         IN  out \o GenerateFrom(g, k + 1, IF directed THEN i ELSE i + 1,
                                 directed, weights)

generate_edges(g, directed, weights) == GenerateFrom(g, 1, 0, directed, weights)

vertices(g) == g.keys

edges(g) == generate_edges(g, TRUE, FALSE)

weighted_edges(g) == generate_edges(g, TRUE, TRUE)

(***************************************************************************)
(* Disjoint set: Graph.__findset, Graph.__union                            *)
(***************************************************************************)

\* Returned by findset when the recursion does not reach a root.
NoRoot == 0

RECURSIVE FindsetFuel(_, _, _)
FindsetFuel(p, vertex, fuel) ==
    IF p[vertex] = vertex THEN vertex
    ELSE IF fuel = 0 THEN NoRoot
    ELSE FindsetFuel(p, p[vertex], fuel - 1)

\* __findset: follows parent links to the root.  A walk longer than the
\* number of vertices is on a cycle and would never return.
findset(p, vertex) == FindsetFuel(p, vertex, Cardinality(DOMAIN p))

\* A union that links the two vertices themselves instead of their roots.
union_WithoutFind(p, r, v1, v2) ==
    IF findset(p, v1) = findset(p, v2) THEN [parents |-> p, ranks |-> r]
    ELSE LET hi == IF r[v1] < r[v2] THEN v2 ELSE v1
             lo == IF r[v1] < r[v2] THEN v1 ELSE v2
         IN  [parents |-> [p EXCEPT ![lo] = hi],
              ranks   |-> IF r[hi] = r[lo] THEN [r EXCEPT ![hi] = r[hi] + 1]
                          ELSE r]

\* __union: returns the dictionaries as the call leaves them.
union(p, r, v1, v2) ==
    LET a == findset(p, v1)
        b == findset(p, v2)
    IN  IF a = b THEN [parents |-> p, ranks |-> r]
        ELSE LET hi == IF r[a] < r[b] THEN b ELSE a
                 lo == IF r[a] < r[b] THEN a ELSE b
                 p2 == [p EXCEPT ![lo] = hi]
             IN  [parents |-> p2,
                  ranks   |-> IF r[hi] = r[lo] THEN [r EXCEPT ![hi] = r[hi] + 1]
                              ELSE r]

(***************************************************************************)
(* Kruskal: Graph.kruskal_mst                                              *)
(***************************************************************************)

\* The outcome of a call.  tree is the returned set (empty when the call
\* raised), picks the edges in the order they were added, queue the edge
\* list the call started from.
Outcome(status, tree, picks, queue) ==
    [status |-> status, vertices |-> <<>>, edges |-> <<>>,
     tree |-> tree, picks |-> picks, queue |-> queue]

RECURSIVE KruskalLoop(_, _, _, _, _, _, _)
KruskalLoop(heap, tree, picks, p, r, n, queue) ==
    IF ~(Cardinality(tree) < n - 1) THEN Outcome("ok", tree, picks, queue)
    ELSE IF heap = <<>> THEN Outcome("IndexError", {}, picks, queue)
    ELSE LET edge   == Head(heap)
             from_v == findset(p, edge[2])
             to_v   == findset(p, edge[3])
         IN  IF from_v # to_v
             THEN LET u == union(p, r, from_v, to_v)
                  IN  KruskalLoop(Tail(heap), tree \cup {edge}, Append(picks, edge),
                                  u.parents, u.ranks, n, queue)
             ELSE KruskalLoop(Tail(heap), tree, picks, p, r, n, queue)

kruskal_mst(g) ==
    LET queue == generate_edges(g, FALSE, TRUE)
        vs    == vertices(g)
    IN  KruskalLoop(heapify(queue), {}, <<>>,
                    [v \in Range(vs) |-> v], [v \in Range(vs) |-> 0],
                    Len(vs), queue)

(***************************************************************************)
(* Prim: Graph.__smallest_edge, Graph.prim_mst                             *)
(***************************************************************************)

\* Returned by smallest_edge when heappop is called on the emptied copy.
NoEdge == <<>>

RECURSIVE smallest_edge(_, _, _)
smallest_edge(old_edges, visited, not_visited) ==
    IF old_edges = <<>> THEN NoEdge
    ELSE LET edge == Head(old_edges)
         IN  IF /\ (edge[2] \in visited \/ edge[3] \in visited)
                /\ (edge[2] \in not_visited \/ edge[3] \in not_visited)
             THEN edge
             ELSE smallest_edge(Tail(old_edges), visited, not_visited)

RECURSIVE PrimLoop(_, _, _, _, _, _)
PrimLoop(heap, visited, not_visited, tree, picks, queue) ==
    IF not_visited = {} THEN Outcome("ok", tree, picks, queue)
    ELSE LET edge == smallest_edge(heap, visited, not_visited)
         IN  IF edge = NoEdge THEN Outcome("IndexError", {}, picks, queue)
             ELSE PrimLoop(heap, visited \cup {edge[2], edge[3]},
                           not_visited \ {edge[2], edge[3]},
                           tree \cup {edge}, Append(picks, edge), queue)

prim_mst(g) ==
    LET queue == generate_edges(g, FALSE, TRUE)
        heap  == heapify(queue)
    IN  IF heap = <<>> THEN Outcome("IndexError", {}, <<>>, queue)
        ELSE LET edge == Head(heap)
             IN  PrimLoop(Tail(heap), {edge[2], edge[3]},
                          Range(g.keys) \ {edge[2], edge[3]},
                          {edge}, <<edge>>, queue)

(***************************************************************************)
(* Inputs                                                                  *)
(***************************************************************************)

Perms(n) == {s \in [1..n -> 1..n] : \A a, b \in 1..n : a # b => s[a] # s[b]}

Pairs(n) == {s \in SUBSET (1..n) : Cardinality(s) = 2}

\* Symmetric matrices over the labels 1..n: one distance (or 0, no edge) per
\* unordered pair; the diagonal is all zero (a distance matrix proper) or
\* carries a non-zero self-distance.
Matrices(n) ==
    {[r \in 1..n |-> [c \in 1..n |-> IF r = c THEN d ELSE off[{r, c}]]] :
        off \in [Pairs(n) -> 0..MaxW], d \in {0, MaxW}}

\* The Mantegna & Stanley example of test_mst.py: the labels CHV, GE, KO,
\* PG, TX, XON (already in sorted order) as 1..6, distances in hundredths.
book_names == <<1, 2, 3, 4, 5, 6>>

book_distances ==
    <<<<  0, 115, 118, 115,  84,  89>>,
      <<115,   0,  86,  89, 126, 116>>,
      <<118,  86,   0,  74, 127, 111>>,
      <<115,  89,  74,   0, 126, 110>>,
      << 84, 126, 127, 126,   0,  94>>,
      << 89, 116, 111, 110,  94,   0>>>>

NoOutcome == Outcome("none", {}, <<>>, <<>>)

NoDS == <<>>

(***************************************************************************)
(* Specification of a Graph object and the calls made on it                *)
(***************************************************************************)

Init ==
    /\ \/ \E n \in 1..MaxN :
             /\ names \in Perms(n)
             /\ dist \in Matrices(n)
       \/ /\ names = book_names
          /\ dist = book_distances
    /\ graph_dict = GraphInit(names, dist)
    /\ op = "new"
    /\ ret = NoOutcome
    /\ dirty = FALSE
    /\ parents = NoDS /\ ranks = NoDS /\ comp = NoDS /\ last = NoDS

CallVertices ==
    /\ op' = "vertices"
    /\ ret' = [NoOutcome EXCEPT !.status = "ok", !.vertices = vertices(graph_dict)]
    /\ UNCHANGED <<names, dist, graph_dict, dirty, dsVars>>

CallEdges ==
    /\ op' = "edges"
    /\ ret' = [NoOutcome EXCEPT !.status = "ok", !.edges = edges(graph_dict)]
    /\ dirty' = TRUE
    /\ UNCHANGED <<names, dist, graph_dict, dsVars>>

CallWeightedEdges ==
    /\ op' = "weighted_edges"
    /\ ret' = [NoOutcome EXCEPT !.status = "ok", !.edges = weighted_edges(graph_dict)]
    /\ dirty' = TRUE
    /\ UNCHANGED <<names, dist, graph_dict, dsVars>>

CallKruskal ==
    /\ op' = "kruskal_mst"
    /\ ret' = kruskal_mst(graph_dict)
    /\ dirty' = TRUE
    /\ UNCHANGED <<names, dist, graph_dict, dsVars>>

CallPrim ==
    /\ op' = "prim_mst"
    /\ ret' = prim_mst(graph_dict)
    /\ dirty' = TRUE
    /\ UNCHANGED <<names, dist, graph_dict, dsVars>>

Next ==
    \/ CallVertices
    \/ CallEdges
    \/ CallWeightedEdges
    \/ CallKruskal
    \/ CallPrim

Spec == Init /\ [][Next]_vars

(***************************************************************************)
(* Specification of the disjoint set under arbitrary union calls           *)
(***************************************************************************)

DSVertices == 1..MaxV

InitDS ==
    /\ parents = [v \in DSVertices |-> v]
    /\ ranks = [v \in DSVertices |-> 0]
    /\ comp = [v \in DSVertices |-> v]
    /\ last = [called |-> FALSE, v1 |-> 1, v2 |-> 1, same |-> TRUE,
               parents |-> parents, ranks |-> ranks]
    /\ names = <<>> /\ dist = <<>> /\ graph_dict = <<>>
    /\ op = "ds" /\ ret = NoOutcome /\ dirty = FALSE

UnionCall ==
    \E v1, v2 \in DSVertices :
        LET u == union(parents, ranks, v1, v2)
        IN  /\ parents' = u.parents
            /\ ranks' = u.ranks
            /\ comp' = [x \in DSVertices |->
                           IF comp[x] = comp[v2] THEN comp[v1] ELSE comp[x]]
            /\ last' = [called |-> TRUE, v1 |-> v1, v2 |-> v2,
                        same |-> comp[v1] = comp[v2],
                        parents |-> parents, ranks |-> ranks]
            /\ UNCHANGED graphVars

NextDS == UnionCall

SpecDS == InitDS /\ [][NextDS]_vars

(***************************************************************************)
(* Vocabulary of the properties                                            *)
(***************************************************************************)

N == Len(names)

V == Range(names)

IsMstCall == op \in {"kruskal_mst", "prim_mst"}

Symmetric == \A a, b \in V : dist[a][b] = dist[b][a]

ZeroDiag == \A a \in V : dist[a][a] = 0

OffDiagNonZero == \A a, b \in V : a # b => dist[a][b] # 0

\* The unordered pairs of distinct vertices the matrix gives a non-zero
\* distance: the edges of the input graph.
RealEdges == {pr \in {{a, b} : a, b \in V} : \E a, b \in pr : a # b /\ dist[a][b] # 0}

RECURSIVE Reach(_, _)
Reach(S, E) ==
    LET nxt == S \cup {v \in V : \E u \in S : {u, v} \in E}
    IN  IF nxt = S THEN S ELSE Reach(nxt, E)

\* E, a set of unordered pairs, connects every vertex.
Connects(E) == \A v \in V : Reach({v}, E) = V

ConnectedInput == Connects(RealEdges)

RECURSIVE TreeWeight(_)
TreeWeight(T) ==
    IF T = {} THEN 0
    ELSE LET e == CHOOSE x \in T : TRUE IN e[1] + TreeWeight(T \ {e})

RECURSIVE PairsWeight(_)
PairsWeight(E) ==
    IF E = {} THEN 0
    ELSE LET pr == CHOOSE x \in E : TRUE
             a  == CHOOSE x \in pr : TRUE
             b  == CHOOSE x \in pr : x # a
         IN  dist[a][b] + PairsWeight(E \ {pr})

SpanningTrees == {E \in SUBSET RealEdges : Cardinality(E) = N - 1 /\ Connects(E)}

\* T is a minimum spanning tree of the input graph.
IsMST(T) ==
    /\ \A e \in T : e[2] # e[3] /\ {e[2], e[3]} \in RealEdges /\ e[1] = dist[e[2]][e[3]]
    /\ Cardinality(T) = N - 1
    /\ Connects({{e[2], e[3]} : e \in T})
    /\ \A E \in SpanningTrees : TreeWeight(T) <= PairsWeight(E)

\* e is in S and no item of S comes before it by weight, then origin, then
\* destination.
IsFirstAmong(e, S) ==
    /\ e \in S
    /\ \A c \in S :
          \/ e[1] < c[1]
          \/ e[1] = c[1] /\ e[2] < c[2]
          \/ e[1] = c[1] /\ e[2] = c[2] /\ e[3] <= c[3]

VisitedAfter(picks, k) == UNION {{picks[j][2], picks[j][3]} : j \in 1..k}

Crossing(S, vis) == {e \in S : (e[2] \in vis) # (e[3] \in vis)}

\* How many items of the edge list q join the vertices a and b.
CountPair(q, a, b) == Cardinality({k \in 1..Len(q) : {q[k][2], q[k][3]} = {a, b}})

IsSorted(s) == \A k \in 1..(Len(s) - 1) : s[k] < s[k + 1]

(***************************************************************************)
(* Properties of a Graph object (specification Spec)                       *)
(***************************************************************************)

\* C1: for a symmetric matrix over n >= 2 vertices with every off-diagonal
\* distance non-zero, kruskal_mst() and prim_mst() each return exactly n-1
\* edges, and the two returned sets have the same total weight.
C1_SameWeight ==
    (N >= 2 /\ Symmetric /\ OffDiagNonZero /\ IsMstCall) =>
        /\ ret.status = "ok"
        /\ Cardinality(ret.tree) = N - 1
        /\ TreeWeight(ret.tree) = TreeWeight(kruskal_mst(graph_dict).tree)
        /\ TreeWeight(ret.tree) = TreeWeight(prim_mst(graph_dict).tree)

\* C2: for a connected, symmetric, zero-diagonal input (two vertices or
\* more) the set kruskal_mst() returns and the set prim_mst() returns is
\* each a minimum spanning tree of the input graph: it touches every vertex,
\* has no cycle, and no spanning tree weighs less.
C2_IsMinimumSpanningTree ==
    (N >= 2 /\ Symmetric /\ ZeroDiag /\ ConnectedInput /\ IsMstCall) =>
        /\ ret.status = "ok"
        /\ IsMST(ret.tree)

\* The second half of C2: on the Mantegna & Stanley matrix both methods
\* return 0.74 KO-PG, 0.84 CHV-TX, 0.86 KO-GE, 0.89 CHV-XON, 1.10 PG-XON.
C2_BookScenario ==
    (names = book_names /\ dist = book_distances /\ IsMstCall) =>
        /\ ret.status = "ok"
        /\ {<<e[1], {e[2], e[3]}>> : e \in ret.tree} =
              {<<74, {3, 4}>>, <<84, {1, 5}>>, <<86, {2, 3}>>,
               <<89, {1, 6}>>, <<110, {4, 6}>>}
        /\ IsMST(ret.tree)

\* C3: when the vertices split into two groups with only zero entries
\* between them, kruskal_mst() and prim_mst() end in DisconnectedGraph.
C3_DisconnectedGraph ==
    (/\ IsMstCall
     /\ \E G \in SUBSET V :
           /\ G # {} /\ G # V
           /\ \A a \in G, b \in V \ G : dist[a][b] = 0 /\ dist[b][a] = 0) =>
        ret.status = "DisconnectedGraph"

\* C4: on a one-vertex matrix with zero self-distance, kruskal_mst() and
\* prim_mst() both return the empty set and neither raises.
C4_SingleVertex ==
    (N = 1 /\ ZeroDiag /\ IsMstCall) =>
        /\ ret.status = "ok"
        /\ ret.tree = {}

\* C5: for a symmetric zero-diagonal matrix, the undirected weighted edge
\* list kruskal_mst() and prim_mst() start from holds each unordered pair of
\* distinct vertices with a non-zero distance exactly once and nothing else,
\* so at most n(n-1)/2 items.
C5_EachPairOnce ==
    (Symmetric /\ ZeroDiag /\ IsMstCall) =>
        /\ \A a, b \in V :
              a < b => CountPair(ret.queue, a, b) = IF dist[a][b] # 0 THEN 1 ELSE 0
        /\ \A k \in 1..Len(ret.queue) : ret.queue[k][2] # ret.queue[k][3]
        /\ 2 * Len(ret.queue) <= N * (N - 1)

\* The adjacency list C6 describes: the non-zero entries of v's column,
\* taken in the matrix's own label order.
MatrixOrderList(v) ==
    SelectSeq([k \in 1..N |-> <<dist[names[k]][v], v, names[k]>>],
              LAMBDA e : e[1] # 0)

\* C6: after construction the adjacency list of every vertex v is the
\* sequence of (weight, v, other) over the labels in matrix order, zero
\* weights left out; with no zero entry edges() is the product of the vertex
\* list with itself in matrix order.
C6_MatrixOrder ==
    /\ \A v \in V : graph_dict.adj[v] = MatrixOrderList(v)
    /\ (op = "edges" /\ \A a, b \in V : dist[a][b] # 0) =>
          ret.edges = [k \in 1..(N * N) |->
                          <<names[((k - 1) \div N) + 1], names[((k - 1) % N) + 1]>>]

\* C7: vertices() is exactly the matrix's labels in column order, each once,
\* before and after any edges(), weighted_edges(), kruskal_mst() and
\* prim_mst() calls.
C7_Vertices ==
    /\ vertices(graph_dict) = names
    /\ \A j, k \in 1..Len(vertices(graph_dict)) :
          j # k => vertices(graph_dict)[j] # vertices(graph_dict)[k]
    /\ op = "vertices" => ret.status = "ok" /\ ret.vertices = names

\* A vertices() call made after other calls, on labels not in sorted order.
C7_Witness ==
    /\ op = "vertices" /\ dirty
    /\ N = MaxN /\ ~IsSorted(names)
    /\ ret.vertices = names

TieAmong(e, S) == \E c \in S : c # e /\ c[1] = e[1]

C10_NoSelfPair ==
    (Symmetric /\ OffDiagNonZero /\ IsMstCall) =>
        \A e \in ret.tree : e[2] # e[3]

(***************************************************************************)
(* Properties of the disjoint set (specification SpecDS)                   *)
(***************************************************************************)

Roots == {v \in DSVertices : parents[v] = v}

====
